---- MODULE Spec2Model ----
(***************************************************************************)
(* A model of dataframe.py: the DataType tag hierarchy (structural         *)
(* equality and rendering), and the default behaviour of the Column and    *)
(* DataFrame abstract base classes.                                        *)
(*                                                                         *)
(* Tags live in a heap of objects, so that two independently constructed   *)
(* tags are distinct objects and equality has to be decided by the code's  *)
(* equals methods.  Columns and frames are objects whose class says which  *)
(* of the optional methods a concrete subclass overrides; a method that is *)
(* not overridden runs the body the base class gives it.                   *)
(***************************************************************************)
EXTENDS Naturals, Sequences, FiniteSets, TLC

VARIABLES
    heap,      \* the DataType objects constructed so far, by object id
    born,      \* each DataType object's fields as its constructor set them
    frames,    \* the DataFrame objects, by object id
    columns,   \* the Column objects, by object id
    last       \* the most recent call: its receiver, arguments and outcome

vars == <<heap, born, frames, columns, last>>

\* ----------------------------------------------------------------- bounds

MaxTags == 3           \* DataType objects constructed
MaxColumns == 2        \* Column objects constructed
MaxFrames == 1         \* DataFrame objects constructed
MaxFrameColumns == 1   \* columns a frame reports
MaxArgs == 2           \* length of an index or name sequence passed in
MaxChain == 2          \* length of a chain f.__dataframe__().__dataframe__()...

\* -------------------------------------------------------- class hierarchy

\* The class statements of the DataType hierarchy: each class and its base.
Base ==
    [ PrimitiveType     |-> "DataType",
      NullType          |-> "PrimitiveType",
      Boolean           |-> "PrimitiveType",
      NumberType        |-> "PrimitiveType",
      IntegerType       |-> "NumberType",
      SignedIntegerType |-> "IntegerType",
      Int8              |-> "SignedIntegerType",
      Int16             |-> "SignedIntegerType",
      Int32             |-> "SignedIntegerType",
      Int64             |-> "SignedIntegerType",
      Binary            |-> "PrimitiveType",
      String            |-> "PrimitiveType",
      Object            |-> "PrimitiveType",
      Categorical       |-> "DataType" ]

RECURSIVE mro(_)
\* The classes an instance of c is an instance of: c and its bases.
mro(c) == IF c \in DOMAIN Base THEN {c} \cup mro(Base[c]) ELSE {c}

\* The classes that define to_string but take no constructor arguments.
\* (A class that leaves to_string abstract cannot be instantiated.)
PrimitiveClasses ==
    { "NullType", "Boolean", "Int8", "Int16", "Int32", "Int64",
      "Binary", "String", "Object" }

type(h, o) == h[o].cls

isinstance(h, o, c) == c \in mro(h[o].cls)

\* ------------------------------------------------------------ DataType

RECURSIVE equals(_, _, _)
RECURSIVE DataType_eq(_, _, _)
RECURSIVE Categorical_equals(_, _, _)
RECURSIVE to_string(_, _)
RECURSIVE DataType_str(_, _)
RECURSIVE Categorical_to_string(_, _)

\* A slip: the classes are compared one level up the hierarchy.
PrimitiveType_equals_base(h, self, other) ==
    isinstance(h, other, Base[type(h, self)])

\* PrimitiveType.equals: type(self) == type(other)
PrimitiveType_equals(h, self, other) == type(h, self) = type(h, other)

\* A slip: the category type is compared with the other's index type.
Categorical_equals_crossed(h, self, other) ==
    /\ isinstance(h, other, "Categorical")
    /\ DataType_eq(h, h[self].index_type, h[other].index_type)
    /\ DataType_eq(h, h[self].category_type, h[other].index_type)
    /\ h[self].ordered = h[other].ordered

\* A slip: the ordered flag is left out of the comparison.
Categorical_equals_unordered(h, self, other) ==
    /\ isinstance(h, other, "Categorical")
    /\ DataType_eq(h, h[self].index_type, h[other].index_type)
    /\ DataType_eq(h, h[self].category_type, h[other].category_type)

\* Categorical.equals: isinstance(other, Categorical) and the three fields
\* compared with ==, left to right, short-circuiting.
Categorical_equals(h, self, other) ==
    /\ isinstance(h, other, "Categorical")
    /\ DataType_eq(h, h[self].index_type, h[other].index_type)
    /\ DataType_eq(h, h[self].category_type, h[other].category_type)
    /\ h[self].ordered = h[other].ordered

\* self.equals(other), dispatched on the class of self.
equals(h, self, other) ==
    IF isinstance(h, self, "PrimitiveType")
    THEN PrimitiveType_equals(h, self, other)
    ELSE Categorical_equals(h, self, other)

\* DataType.__eq__: return self.equals(other)
DataType_eq(h, self, other) == equals(h, self, other)

NullType_to_string == "null"
Boolean_to_string == "bool"
Int8_to_string == "int8"
Int16_to_string == "int16"
Int32_to_string == "int32"
Int64_to_string == "int64"
Binary_to_string == "binary"
String_to_string == "string"
Object_to_string == "object"

\* str() of a Python bool, as str.format renders it for "{}".
bool_str(b) == IF b THEN "True" ELSE "False"

\* A slip: the format string has no field for the ordered flag.
format_two(a, b, c) ==
    "categorical(indices=" \o a \o ", categories=" \o b \o ")"

\* "categorical(indices={}, categories={}, ordered={})".format(a, b, c)
format(a, b, c) ==
    "categorical(indices=" \o a \o ", categories=" \o b
        \o ", ordered=" \o c \o ")"

\* A slip: the index type and the category type are passed in the wrong order.
Categorical_to_string_swapped(h, self) ==
    format(DataType_str(h, h[self].category_type),
           DataType_str(h, h[self].index_type),
           bool_str(h[self].ordered))

\* Categorical.to_string
Categorical_to_string(h, self) ==
    format(DataType_str(h, h[self].index_type),
           DataType_str(h, h[self].category_type),
           bool_str(h[self].ordered))

\* self.to_string(), dispatched on the class of self.
to_string(h, self) ==
    CASE type(h, self) = "NullType"    -> NullType_to_string
      [] type(h, self) = "Boolean"     -> Boolean_to_string
      [] type(h, self) = "Int8"        -> Int8_to_string
      [] type(h, self) = "Int16"       -> Int16_to_string
      [] type(h, self) = "Int32"       -> Int32_to_string
      [] type(h, self) = "Int64"       -> Int64_to_string
      [] type(h, self) = "Binary"      -> Binary_to_string
      [] type(h, self) = "String"      -> String_to_string
      [] type(h, self) = "Object"      -> Object_to_string
      [] type(h, self) = "Categorical" -> Categorical_to_string(h, self)

\* DataType.__str__: return self.to_string()
DataType_str(h, self) == to_string(h, self)

\* DataType.__repr__: return str(self)
DataType_repr(h, self) == DataType_str(h, self)

\* A primitive class called with no arguments: an object with no fields.
Primitive_new(c) == [cls |-> c]

\* Categorical.__init__: the three arguments are stored as given.
Categorical_init(index_type, category_type, ordered) ==
    [ cls           |-> "Categorical",
      index_type    |-> index_type,
      category_type |-> category_type,
      ordered       |-> ordered ]

\* A return value, and a raised exception.
Return(v) == [kind |-> "return", value |-> v]
Raise(exc, msg) == [kind |-> "raise", exc |-> exc, msg |-> msg]

NoCall == [op |-> "none"]

\* -------------------------------------------------------------- Column

\* The methods of Column a concrete subclass may leave as the base gives them.
ColumnConversions == {"to_numpy", "to_arrow"}

\* A slip: the default conversion returns None instead of raising.
Column_to_numpy_none(self) == Return("None")

\* Column.to_numpy, as the base class defines it.
Column_to_numpy(self) ==
    Raise("NotImplementedError", "Conversion to NumPy not available")

\* Column.to_arrow, as the base class defines it.
Column_to_arrow(self) ==
    Raise("NotImplementedError", "Conversion to Arrow not available")

\* ----------------------------------------------------------- DataFrame

\* The methods of DataFrame that are not abstract and raise by default.
OptionalOps ==
    {"row_names", "select_columns", "select_columns_by_name", "to_dict_of_numpy"}

Names == {"x", "y"}

\* A slip: the accessor returns a copy of the frame.
DataFrame_dataframe_copy(fs, self) ==
    [frames |-> Append(fs, fs[self]), value |-> Len(fs) + 1]

\* DataFrame.__dataframe__: return self.  The outcome is the frames that
\* exist after the call and the object returned.
DataFrame_dataframe(fs, self) == [frames |-> fs, value |-> self]

\* DataFrame.row_names, as the base class defines it.
DataFrame_row_names(fs, self) ==
    Raise("NotImplementedError", "This DataFrame has no row names")

\* A slip: the bounds are checked before the default refusal.
DataFrame_select_columns_checked(fs, self, indices) ==
    IF \E k \in DOMAIN indices : indices[k] >= fs[self].num_columns
    THEN Raise("IndexError", "select_columns")
    ELSE Raise("NotImplementedError", "select_columns")

\* DataFrame.select_columns, as the base class defines it.
DataFrame_select_columns(fs, self, indices) ==
    Raise("NotImplementedError", "select_columns")

\* DataFrame.select_columns_by_name, as the base class defines it.
DataFrame_select_columns_by_name(fs, self, names) ==
    Raise("NotImplementedError", "select_columns_by_name")

\* DataFrame.to_dict_of_numpy, as the base class defines it.
DataFrame_to_dict_of_numpy(fs, self) ==
    Raise("NotImplementedError", "TODO")

\* The outcome of a method a subclass overrides is the subclass's business.
Overridden == [kind |-> "overridden"]

\* Method lookup: the subclass's override if it has one, else the base's body.
Invoke(obj, method, base) ==
    IF method \in obj.overrides THEN Overridden ELSE base

\* Sequences over S of length at most n.
SeqUpTo(S, n) == UNION { [1..k -> S] : k \in 0..n }

\* ------------------------------------------------------------- actions

Idle == last = NoCall

\* The caller takes the outcome of the last call and goes on.
Continue ==
    /\ ~Idle
    /\ last' = NoCall
    /\ UNCHANGED <<heap, born, frames, columns>>

\* A primitive tag is constructed: NullType(), Int8(), ...
NewPrimitive(c) ==
    /\ Len(heap) < MaxTags
    /\ heap' = Append(heap, Primitive_new(c))
    /\ born' = Append(born, Primitive_new(c))
    /\ last' = NoCall
    /\ UNCHANGED <<frames, columns>>

\* Categorical(index_type, category_type, ordered) is constructed.
NewCategorical(index_type, category_type, ordered) ==
    /\ Len(heap) < MaxTags
    /\ heap' = Append(heap, Categorical_init(index_type, category_type, ordered))
    /\ born' = Append(born, Categorical_init(index_type, category_type, ordered))
    /\ last' = NoCall
    /\ UNCHANGED <<frames, columns>>

\* self.equals(other)
CallEquals(self, other) ==
    /\ Idle
    /\ last' = [op |-> "equals", self |-> self, other |-> other,
                out |-> Return(equals(heap, self, other))]
    /\ UNCHANGED <<heap, born, frames, columns>>

\* A slip: rendering a Categorical normalises its ordered flag in place.
CallToString_normalising(self) ==
    /\ Idle
    /\ last' = [op |-> "to_string", self |-> self,
                out |-> Return(to_string(heap, self))]
    /\ heap' = IF type(heap, self) = "Categorical"
               THEN [heap EXCEPT ![self].ordered = FALSE]
               ELSE heap
    /\ UNCHANGED <<born, frames, columns>>

\* self.to_string()
CallToString(self) ==
    /\ Idle
    /\ last' = [op |-> "to_string", self |-> self,
                out |-> Return(to_string(heap, self))]
    /\ UNCHANGED <<heap, born, frames, columns>>

\* A concrete Column subclass is instantiated.
NewColumn(name, overrides) ==
    /\ Len(columns) < MaxColumns
    /\ columns' = Append(columns, [name |-> name, overrides |-> overrides])
    /\ last' = NoCall
    /\ UNCHANGED <<heap, born, frames>>

\* self.to_numpy()
CallToNumpy(self) ==
    /\ Idle
    /\ last' = [op |-> "to_numpy", self |-> self,
                out |-> Invoke(columns[self], "to_numpy", Column_to_numpy(self))]
    /\ UNCHANGED <<heap, born, frames, columns>>

\* self.to_arrow()
CallToArrow(self) ==
    /\ Idle
    /\ last' = [op |-> "to_arrow", self |-> self,
                out |-> Invoke(columns[self], "to_arrow", Column_to_arrow(self))]
    /\ UNCHANGED <<heap, born, frames, columns>>

\* A concrete DataFrame subclass is instantiated.
NewFrame(overrides, num_columns) ==
    /\ Len(frames) < MaxFrames
    /\ frames' = Append(frames, [overrides |-> overrides,
                                 num_columns |-> num_columns])
    /\ last' = NoCall
    /\ UNCHANGED <<heap, born, columns>>

\* self.__dataframe__()
CallDataframe(self) ==
    /\ Idle
    /\ frames' = DataFrame_dataframe(frames, self).frames
    /\ last' = [op |-> "__dataframe__", self |-> self, n |-> 1,
                out |-> Return(DataFrame_dataframe(frames, self).value)]
    /\ UNCHANGED <<heap, born, columns>>

\* __dataframe__ is called on what the previous __dataframe__ returned.
CallDataframeAgain ==
    /\ last.op = "__dataframe__"
    /\ last.n < MaxChain
    /\ frames' = DataFrame_dataframe(frames, last.out.value).frames
    /\ last' = [last EXCEPT !.n = @ + 1,
                  !.out = Return(DataFrame_dataframe(frames, last.out.value).value)]
    /\ UNCHANGED <<heap, born, columns>>

\* self.row_names
CallRowNames(self) ==
    /\ Idle
    /\ last' = [op |-> "row_names", self |-> self,
                out |-> Invoke(frames[self], "row_names",
                               DataFrame_row_names(frames, self))]
    /\ UNCHANGED <<heap, born, frames, columns>>

\* self.select_columns(indices)
CallSelectColumns(self, indices) ==
    /\ Idle
    /\ last' = [op |-> "select_columns", self |-> self, arg |-> indices,
                out |-> Invoke(frames[self], "select_columns",
                               DataFrame_select_columns(frames, self, indices))]
    /\ UNCHANGED <<heap, born, frames, columns>>

\* self.select_columns_by_name(names)
CallSelectColumnsByName(self, names) ==
    /\ Idle
    /\ last' = [op |-> "select_columns_by_name", self |-> self, arg |-> names,
                out |-> Invoke(frames[self], "select_columns_by_name",
                               DataFrame_select_columns_by_name(frames, self, names))]
    /\ UNCHANGED <<heap, born, frames, columns>>

\* self.to_dict_of_numpy()
CallToDictOfNumpy(self) ==
    /\ Idle
    /\ last' = [op |-> "to_dict_of_numpy", self |-> self,
                out |-> Invoke(frames[self], "to_dict_of_numpy",
                               DataFrame_to_dict_of_numpy(frames, self))]
    /\ UNCHANGED <<heap, born, frames, columns>>

\* ------------------------------------------------------ specifications

Init ==
    /\ heap = <<>>
    /\ born = <<>>
    /\ frames = <<>>
    /\ columns = <<>>
    /\ last = NoCall

\* The tag system: tags are constructed, compared and rendered.
Next ==
    \/ \E c \in PrimitiveClasses : NewPrimitive(c)
    \/ \E i, c \in DOMAIN heap, o \in BOOLEAN : NewCategorical(i, c, o)
    \/ \E a, b \in DOMAIN heap : CallEquals(a, b)
    \/ \E a \in DOMAIN heap : CallToString(a)
    \/ Continue

Spec == Init /\ [][Next]_vars

\* Columns: subclasses are instantiated and asked to convert.
ColumnNext ==
    \/ \E n \in Names, ov \in SUBSET ColumnConversions : NewColumn(n, ov)
    \/ \E c \in DOMAIN columns : CallToNumpy(c)
    \/ \E c \in DOMAIN columns : CallToArrow(c)
    \/ Continue

ColumnSpec == Init /\ [][ColumnNext]_vars

\* Frames: subclasses are instantiated and their concrete methods called.
FrameNext ==
    \/ \E ov \in SUBSET OptionalOps, n \in 0..MaxFrameColumns : NewFrame(ov, n)
    \/ \E f \in DOMAIN frames : CallDataframe(f)
    \/ CallDataframeAgain
    \/ \E f \in DOMAIN frames : CallRowNames(f)
    \/ \E f \in DOMAIN frames, ix \in SeqUpTo(0..MaxFrameColumns, MaxArgs) :
           CallSelectColumns(f, ix)
    \/ \E f \in DOMAIN frames, ns \in SeqUpTo(Names, MaxArgs) :
           CallSelectColumnsByName(f, ns)
    \/ \E f \in DOMAIN frames : CallToDictOfNumpy(f)
    \/ Continue

FrameSpec == Init /\ [][FrameNext]_vars

\* ---------------------------------------------------- what tags denote

RECURSIVE Denotes(_, _)
\* The tag an object denotes, as a value: its variant and, for a
\* Categorical, the tags its fields denote and its ordered flag.
Denotes(h, o) ==
    IF h[o].cls = "Categorical"
    THEN [ variant       |-> "Categorical",
           index_type    |-> Denotes(h, h[o].index_type),
           category_type |-> Denotes(h, h[o].category_type),
           ordered       |-> h[o].ordered ]
    ELSE [ variant |-> h[o].cls ]

Literal ==
    [ NullType |-> "null", Boolean |-> "bool", Int8 |-> "int8",
      Int16 |-> "int16", Int32 |-> "int32", Int64 |-> "int64",
      Binary |-> "binary", String |-> "string", Object |-> "object" ]

RECURSIVE Rendering(_)
\* The text the specification gives for a tag value.
Rendering(t) ==
    IF t.variant = "Categorical"
    THEN "categorical(indices=" \o Rendering(t.index_type)
            \o ", categories=" \o Rendering(t.category_type)
            \o ", ordered=" \o (IF t.ordered THEN "True" ELSE "False") \o ")"
    ELSE Literal[t.variant]

IsCategorical(o) == heap[o].cls = "Categorical"
Nested(o) == IsCategorical(o) /\ IsCategorical(heap[o].category_type)

EqualsReturned == last.op = "equals" /\ last.out.kind = "return"
ToStringReturned == last.op = "to_string" /\ last.out.kind = "return"

\* ----------------------------------------------------------------- C1
\* C1: a.equals(b) is true exactly when a and b denote the same tag: the
\* same variant and, for two Categoricals, pairwise equal index_type,
\* category_type and ordered, recursively.  Two plain tags of different
\* variants are never equal, a Categorical never equals a plain tag, and
\* two separately constructed tags that denote the same tag are equal.
C1_EqualsIsStructural ==
    EqualsReturned =>
        /\ last.out.value = (Denotes(heap, last.self) = Denotes(heap, last.other))
        /\ (heap[last.self].cls # heap[last.other].cls => last.out.value = FALSE)
        /\ (IsCategorical(last.self) /\ IsCategorical(last.other) =>
              last.out.value =
                 ( /\ equals(heap, heap[last.self].index_type,
                                   heap[last.other].index_type)
                   /\ equals(heap, heap[last.self].category_type,
                                   heap[last.other].category_type)
                   /\ heap[last.self].ordered = heap[last.other].ordered ))

\* A Categorical whose category type is a Categorical was compared with a
\* Categorical of the same index type and ordered flag whose category type
\* is a plain tag: the answer, false, comes from the nested comparison.
C1_Witness ==
    /\ EqualsReturned
    /\ Nested(last.self)
    /\ IsCategorical(last.other) /\ ~Nested(last.other)
    /\ equals(heap, heap[last.self].index_type, heap[last.other].index_type)
    /\ heap[last.self].ordered = heap[last.other].ordered
    /\ last.out.value = FALSE

\* ----------------------------------------------------------------- C2
\* C2: equals is reflexive, symmetric and transitive, and every call of it
\* returns a boolean.
C2_EqualsIsEquivalence ==
    last.op = "equals" =>
        /\ last.out.kind = "return"
        /\ last.out.value \in BOOLEAN
        /\ (last.self = last.other => last.out.value = TRUE)
        /\ equals(heap, last.self, last.self)
        /\ last.out.value = equals(heap, last.other, last.self)
        /\ \A c \in DOMAIN heap :
              last.out.value /\ equals(heap, last.other, c)
                 => equals(heap, last.self, c)

\* Two distinct Categorical objects were compared and found equal, while
\* the heap also holds a plain tag that neither of them equals.
C2_Witness ==
    /\ EqualsReturned
    /\ last.self # last.other
    /\ IsCategorical(last.self) /\ IsCategorical(last.other)
    /\ last.out.value = TRUE
    /\ \E c \in DOMAIN heap : ~IsCategorical(c) /\ ~equals(heap, last.self, c)

\* ----------------------------------------------------------------- C6
\* C6: to_string returns the fixed literal of a plain variant, and for
\* Categorical(ix, cat, ord) the text "categorical(indices=<ix>,
\* categories=<cat>, ordered=<ord>)" with <ix> and <cat> rendered by the
\* same rule and <ord> Python's text of the boolean.
C6_ToStringRendering ==
    ToStringReturned =>
        last.out.value = Rendering(Denotes(heap, last.self))

\* A Categorical whose category type is a Categorical was rendered, and its
\* index type and category type render differently.
C6_Witness ==
    /\ ToStringReturned
    /\ Nested(last.self)
    /\ heap[heap[last.self].index_type].cls = "Int8"
    /\ heap[last.self].ordered
    /\ Len(last.out.value) > Len("categorical(indices=int8, categories=, ordered=True)")

\* ----------------------------------------------------------------- C7
\* C7: two tags of the same variant and the same parameters are equal and
\* render the same; whenever equals answers true the two renderings are
\* the same text.
C7_EqualImpliesSameRendering ==
    EqualsReturned =>
        /\ (Denotes(heap, last.self) = Denotes(heap, last.other) =>
              /\ last.out.value = TRUE
              /\ to_string(heap, last.self) = to_string(heap, last.other))
        /\ (last.out.value = TRUE =>
              to_string(heap, last.self) = to_string(heap, last.other))

\* Two distinct Categorical objects with the same parameters, ordered set,
\* were compared and found equal.
C7_Witness ==
    /\ EqualsReturned
    /\ last.self # last.other
    /\ IsCategorical(last.self) /\ IsCategorical(last.other)
    /\ heap[last.self].ordered
    /\ last.out.value = TRUE

\* ----------------------------------------------------------------- C8
\* C8: every Categorical that exists has an index_type that is an Integer
\* variant.
C8_IndexTypeIsInteger ==
    \A o \in DOMAIN heap :
        IsCategorical(o) => isinstance(heap, heap[o].index_type, "IntegerType")

\* ----------------------------------------------------------------- C9
\* C9: equals and to_string leave every tag as its constructor made it, so
\* what a call returns is what the tags' fields at construction decide.
C9_TagsImmutable ==
    /\ heap = born
    /\ (EqualsReturned =>
          last.out.value = equals(born, last.self, last.other))
    /\ (ToStringReturned =>
          last.out.value = to_string(born, last.self))

\* An ordered Categorical has just been rendered.
C9_Witness ==
    /\ ToStringReturned
    /\ IsCategorical(last.self)
    /\ heap[last.self].ordered
    /\ born[last.self].ordered

\* ---------------------------------------------------------------- C10
\* C10: two tags that render the same are equal.
C10_ToStringInjective ==
    EqualsReturned =>
        (to_string(heap, last.self) = to_string(heap, last.other)
            => last.out.value = TRUE)

\* Two Categoricals that differ only in the ordered flag were compared and
\* found unequal.
C10_Witness ==
    /\ EqualsReturned
    /\ IsCategorical(last.self) /\ IsCategorical(last.other)
    /\ heap[last.self].index_type = heap[last.other].index_type
    /\ heap[last.self].category_type = heap[last.other].category_type
    /\ heap[last.self].ordered # heap[last.other].ordered
    /\ last.out.value = FALSE

\* ----------------------------------------------------------------- C3
ConversionCalled == last.op \in ColumnConversions

NotOverridden == last.op \notin columns[last.self].overrides

\* C3 as stated: to_numpy or to_arrow on a Column that does not override it
\* fails with the error kind UnsupportedConversion.
C3_RaisesUnsupportedConversion ==
    ConversionCalled /\ NotOverridden =>
        /\ last.out.kind = "raise"
        /\ last.out.exc = "UnsupportedConversion"

\* C3 amended: to_numpy or to_arrow on a Column that does not override it
\* never returns a value; it raises NotImplementedError, the error kind the
\* optional DataFrame operations raise.
C3_RaisesNotImplementedError ==
    ConversionCalled /\ NotOverridden =>
        /\ last.out.kind = "raise"
        /\ last.out.exc = "NotImplementedError"
        /\ last.out.exc = DataFrame_row_names(frames, 1).exc

\* to_arrow was called on a column that overrides to_numpy only.
C3_Witness ==
    /\ last.op = "to_arrow"
    /\ columns[last.self].overrides = {"to_numpy"}
    /\ last.out.kind = "raise"

\* ----------------------------------------------------------------- C4
\* C4: on a DataFrame that overrides none of the optional operations,
\* row_names, select_columns, select_columns_by_name and to_dict_of_numpy
\* raise NotImplementedError whatever the argument.
C4_OptionalOpsRaise ==
    last.op \in OptionalOps /\ frames[last.self].overrides = {} =>
        /\ last.out.kind = "raise"
        /\ last.out.exc = "NotImplementedError"

\* select_columns was called with an in-range and an out-of-range index on
\* a frame that overrides nothing.
C4_Witness ==
    /\ last.op = "select_columns"
    /\ frames[last.self].overrides = {}
    /\ \E k \in DOMAIN last.arg : last.arg[k] < frames[last.self].num_columns
    /\ \E k \in DOMAIN last.arg : last.arg[k] >= frames[last.self].num_columns
    /\ last.out.kind = "raise"

\* ----------------------------------------------------------------- C5
\* C5: __dataframe__ returns the frame it was called on, however many times
\* it is applied in a chain, and no frame is changed or created by it.
C5_DataframeReturnsSelf ==
    [][ last'.op = "__dataframe__" =>
          /\ last'.out = Return(last'.self)
          /\ frames' = frames ]_vars

\* __dataframe__ was applied twice in a chain.
C5_Witness ==
    /\ last.op = "__dataframe__"
    /\ last.n = 2
    /\ last.out.kind = "return"
    /\ last.out.value = last.self

====
